---- MODULE Spec2Model ----
(***************************************************************************)
(* Model of the ClawdScanner ("vigil") core:                               *)
(*   - the key store of crypto/keys.ts (ensureKeysExist / generateKeys),   *)
(*     run by several processes that share the two key files;              *)
(*   - the orchestrator of scanners/index.ts (runFullScan over six domain  *)
(*     scanners, followed by calculateSummary);                            *)
(*   - the attestation functions of crypto/keys.ts (hashData, signData,    *)
(*     verifySignature) in the usual symbolic model of cryptography.       *)
(* Each part has its own specification (KeySpec, ScanSpec, CryptoSpec);    *)
(* the variables of the parts that a specification does not run stay at    *)
(* their "off" values.                                                     *)
(***************************************************************************)
EXTENDS Integers, Sequences, FiniteSets, TLC

VARIABLES
    \* ---- key store (crypto/keys.ts) ----
    dirExists,   \* KEYS_DIR exists
    privFile,    \* the file at PRIVATE_KEY_PATH
    pubFile,     \* the file at PUBLIC_KEY_PATH
    kpc,         \* kpc[p]: position of process p inside ensureKeysExist
    kread,       \* kread[p]: the privateKey read at keys.ts:19
    kgen,        \* kgen[p]: the pair produced by generateKeyPairSync
    kret,        \* kret[p]: the outcomes of p's calls, oldest first
    nextKey,     \* source of fresh key material
    kinit,       \* history: the two key files as they were at the start
    \* ---- orchestrator (scanners/index.ts) ----
    spc,         \* position of runFullScan
    hostname,    \* value of the local const hostname
    task,        \* task[d]: state of the promise of domain scanner d
    now,         \* the system clock
    report,      \* the value runFullScan resolved with
    \* ---- attestation (crypto/keys.ts) ----
    cpc,         \* position of the sign / verify scenario
    cdata,       \* the data string handed to signData / verifySignature
    ckey,        \* the key handed to signData
    csig,        \* the signature string of the artifact
    chash,       \* the hash string of the artifact
    cpub,        \* the key handed to verifySignature
    cres,        \* what verifySignature returned
    \* ---- risk aggregator (scanners/index.ts, calculateSummary) ----
    sphase,      \* position of the summary scenario
    rset,        \* the six domain results handed to calculateSummary
    injected,    \* history: the list a critical finding was injected into
    summary,     \* what calculateSummary returned
    \* ---- history of a scan and the serialized reports ----
    order,       \* history: the domains in the order their promises settled
    canon,       \* the serializations of the report made so far
    prev,        \* history: the timestamp of the previous scan's report
    \* ---- one domain scanner and its sub-checks (scanners/*.ts) ----
    sdom,        \* the domain of the scanner that runs
    sub,         \* the state of each of its sub-checks
    sres         \* the state of the promise that the scanner returned

keyVars == <<dirExists, privFile, pubFile, kpc, kread, kgen, kret, nextKey, kinit>>
scanVars == <<spc, hostname, task, now, report>>
cryptoVars == <<cpc, cdata, ckey, csig, chash, cpub, cres>>
sumVars == <<sphase, rset, injected, summary>>
auxVars == <<order, canon, prev>>
subVars == <<sdom, sub, sres>>
vars == <<keyVars, scanVars, cryptoVars, sumVars, auxVars, subVars>>

(***************************************************************************)
(* Bounds of the model.                                                    *)
(***************************************************************************)
NumProcs == 2        \* processes that share the key store
MaxCalls == 3        \* calls of ensureKeysExist, all processes together
MaxTime == 2         \* ticks of the system clock
MaxLen == 2          \* length of a data string
NumKeys == 2         \* key pairs of the attestation scenario
MaxFindings == 2     \* entries that the scanners put into a result set
MaxCanon == 2        \* serializations of one report

Procs == 1..NumProcs

(***************************************************************************)
(* Key material.  generateKeyPairSync returns a fresh pair; pair number k  *)
(* is the PEM text KeyPem("PRIVATE KEY", k) and KeyPem("PUBLIC KEY", k).   *)
(***************************************************************************)
KeyPem(label, k) == [pem |-> label, id |-> k]
NoPem == [pem |-> "", id |-> 0]
generateKeyPairSync(k) ==
    [privateKey |-> KeyPem("PRIVATE KEY", k), publicKey |-> KeyPem("PUBLIC KEY", k)]
NoPair == [privateKey |-> NoPem, publicKey |-> NoPem]

MODE_PRIVATE == 384   \* 0o600
MODE_PUBLIC == 420    \* 0o644

(***************************************************************************)
(* Files.  A file is absent, or has a content, a permission mode and a     *)
(* flag telling whether this user can read it.                             *)
(***************************************************************************)
NoFile == [exists |-> FALSE, content |-> NoPem, mode |-> 0, readable |-> FALSE]

File(content, mode, readable) ==
    [exists |-> TRUE, content |-> content, mode |-> mode, readable |-> readable]

\* fs.readFile(path, 'utf-8') resolves iff the file exists and can be read.
CanReadOwnerOnlyFiles(f) == f.exists /\ f.readable /\ f.mode = MODE_PRIVATE

CanRead(f) == f.exists /\ f.readable

\* fs.writeFile(path, data, { mode }) with the default flag 'w': the file is
\* created with `mode` when absent, and truncated and rewritten (mode and
\* ownership kept) when present.
writeFile(f, data, mode) ==
    IF f.exists THEN [f EXCEPT !.content = data] ELSE File(data, mode, TRUE)

KeyOff ==
    /\ dirExists = FALSE /\ privFile = NoFile /\ pubFile = NoFile
    /\ kpc = [p \in Procs |-> "off"]
    /\ kread = [p \in Procs |-> NoPem]
    /\ kgen = [p \in Procs |-> NoPair]
    /\ kret = [p \in Procs |-> <<>>]
    /\ nextKey = 0
    /\ kinit = [priv |-> NoFile, pub |-> NoFile]

\* Key stores that an earlier run, or the user, can have left behind: pair 0
\* or a part of it, with the modes the program sets or a looser one, readable
\* or not.
KeyInit ==
    /\ privFile \in {NoFile} \cup
          {File(KeyPem("PRIVATE KEY", 0), m, r) : m \in {MODE_PRIVATE, MODE_PUBLIC}, r \in BOOLEAN}
    /\ pubFile \in {NoFile} \cup
          {File(KeyPem("PUBLIC KEY", 0), MODE_PUBLIC, r) : r \in BOOLEAN}
    /\ dirExists \in IF privFile.exists \/ pubFile.exists THEN {TRUE} ELSE BOOLEAN
    /\ kpc = [p \in Procs |-> "idle"]
    /\ kread = [p \in Procs |-> NoPem]
    /\ kgen = [p \in Procs |-> NoPair]
    /\ kret = [p \in Procs |-> <<>>]
    /\ nextKey = 1
    /\ kinit = [priv |-> privFile, pub |-> pubFile]

Resolved(pair) == [ok |-> TRUE, pair |-> pair]
Rejected == [ok |-> FALSE, pair |-> NoPair]

\* What the caller of ensureKeysExist gets: the call ends and its outcome is
\* recorded.
Return(p, outcome) ==
    /\ kpc' = [kpc EXCEPT ![p] = "idle"]
    /\ kret' = [kret EXCEPT ![p] = Append(@, outcome)]

\* generateKeys has no try block: an fs call that throws rejects generateKeys,
\* and with it the ensureKeysExist call that awaits it.
UncaughtSwallowed(p) == Resolved(kgen[p])

Uncaught(p) == Rejected

\* The calls of ensureKeysExist made so far, ended or not.
RECURSIVE CallsUpTo(_)
CallsUpTo(n) ==
    IF n = 0 THEN 0
    ELSE CallsUpTo(n - 1) + Len(kret[n]) + (IF kpc[n] = "idle" THEN 0 ELSE 1)

\* A process calls ensureKeysExist().
Call(p) ==
    /\ kpc[p] = "idle"
    /\ CallsUpTo(NumProcs) < MaxCalls
    /\ kpc' = [kpc EXCEPT ![p] = "readPriv"]
    /\ kread' = [kread EXCEPT ![p] = NoPem]
    /\ kgen' = [kgen EXCEPT ![p] = NoPair]
    /\ UNCHANGED <<dirExists, privFile, pubFile, kret, nextKey, kinit>>

\* keys.ts:19: read the private key; any error goes to the catch, which calls
\* generateKeys, whose first step is the mkdir.
ReadPrivate(p) ==
    /\ kpc[p] = "readPriv"
    /\ IF CanRead(privFile)
          THEN /\ kread' = [kread EXCEPT ![p] = privFile.content]
               /\ kpc' = [kpc EXCEPT ![p] = "readPub"]
          ELSE /\ kpc' = [kpc EXCEPT ![p] = "mkdir"]
               /\ UNCHANGED kread
    /\ UNCHANGED <<dirExists, privFile, pubFile, kgen, kret, nextKey, kinit>>

\* keys.ts:20-21: read the public key and return the pair; any error goes to
\* the same catch.
ReadPublic(p) ==
    /\ kpc[p] = "readPub"
    /\ IF CanRead(pubFile)
          THEN Return(p, Resolved([privateKey |-> kread[p], publicKey |-> pubFile.content]))
          ELSE /\ kpc' = [kpc EXCEPT ![p] = "mkdir"]
               /\ UNCHANGED kret
    /\ UNCHANGED <<dirExists, privFile, pubFile, kread, kgen, nextKey, kinit>>

\* keys.ts:30-42: mkdir -p of KEYS_DIR, then the synchronous generation of a
\* fresh pair.  A failing mkdir rejects the call.
Mkdir(p) ==
    /\ kpc[p] = "mkdir"
    /\ \E ok \in BOOLEAN :
          IF ok \/ dirExists
             THEN /\ dirExists' = TRUE
                  /\ kgen' = [kgen EXCEPT ![p] = generateKeyPairSync(nextKey)]
                  /\ nextKey' = nextKey + 1
                  /\ kpc' = [kpc EXCEPT ![p] = "writePriv"]
                  /\ UNCHANGED kret
             ELSE /\ Return(p, Uncaught(p))
                  /\ UNCHANGED <<dirExists, kgen, nextKey, kinit>>
    /\ UNCHANGED <<privFile, pubFile, kread, kinit>>

\* keys.ts:45: write the private key.  A failing write rejects the call.
WritePrivate(p) ==
    /\ kpc[p] = "writePriv"
    /\ \E ok \in BOOLEAN :
          IF ok
             THEN /\ privFile' = writeFile(privFile, kgen[p].privateKey, MODE_PRIVATE)
                  /\ kpc' = [kpc EXCEPT ![p] = "writePub"]
                  /\ UNCHANGED kret
             ELSE /\ Return(p, Uncaught(p))
                  /\ UNCHANGED privFile
    /\ UNCHANGED <<dirExists, pubFile, kread, kgen, nextKey, kinit>>

\* keys.ts:46-48: write the public key and return the generated pair.
WritePublic(p) ==
    /\ kpc[p] = "writePub"
    /\ \E ok \in BOOLEAN :
          IF ok
             THEN /\ pubFile' = writeFile(pubFile, kgen[p].publicKey, MODE_PUBLIC)
                  /\ Return(p, Resolved(kgen[p]))
             ELSE /\ Return(p, Uncaught(p))
                  /\ UNCHANGED pubFile
    /\ UNCHANGED <<dirExists, privFile, kread, kgen, nextKey, kinit>>

KeyNext ==
    \/ \E p \in Procs : (Call(p) /\ UNCHANGED <<scanVars, cryptoVars, sumVars, auxVars, subVars>>)
    \/ \E p \in Procs : (ReadPrivate(p) /\ UNCHANGED <<scanVars, cryptoVars, sumVars, auxVars, subVars>>)
    \/ \E p \in Procs : (ReadPublic(p) /\ UNCHANGED <<scanVars, cryptoVars, sumVars, auxVars, subVars>>)
    \/ \E p \in Procs : (Mkdir(p) /\ UNCHANGED <<scanVars, cryptoVars, sumVars, auxVars, subVars>>)
    \/ \E p \in Procs : (WritePrivate(p) /\ UNCHANGED <<scanVars, cryptoVars, sumVars, auxVars, subVars>>)
    \/ \E p \in Procs : (WritePublic(p) /\ UNCHANGED <<scanVars, cryptoVars, sumVars, auxVars, subVars>>)

(***************************************************************************)
(* Domain results (scanners/*.ts).  A finding is kept by its severity, the *)
(* only field calculateSummary reads.                                      *)
(***************************************************************************)
Domains == <<"network", "processes", "filesystem", "dependencies", "configuration", "containers">>
DomainSet == {Domains[i] : i \in DOMAIN Domains}

Severities == {"critical", "high", "medium", "low"}
Finding(s) == [severity |-> s]

NetworkResult(ports, enabled, type) ==
    [openPorts |-> ports, firewallStatus |-> [enabled |-> enabled, type |-> type],
     listeningServices |-> <<>>]
ProcessResult(susp, priv, env) ==
    [suspiciousProcesses |-> susp, privilegedProcesses |-> priv, secretsInEnv |-> env]
FilesystemResult(sens, ww, suid, exposed) ==
    [sensitiveFileIssues |-> sens, worldWritableFiles |-> ww, suidFiles |-> suid,
     exposedSecrets |-> exposed]
DependencyResult(has, c, h, m, l, i) ==
    [hasPackageJson |-> has, vulnerabilities |-> <<>>, totalVulnerabilities |-> 0,
     summary |-> [critical |-> c, high |-> h, moderate |-> m, low |-> l, info |-> i]]
ConfigResult(ssh, secrets) == [sshConfigIssues |-> ssh, secretsInConfig |-> secrets]
ContainerResult(cs) == [containers |-> cs]
Container(issues) == [issues |-> issues]

\* The number of findings of severity sev in a list.
Count(list, sev) == Cardinality({i \in DOMAIN list : list[i].severity = sev})

RECURSIVE SumOver(_, _)
SumOver(list, sev) ==
    IF list = <<>> THEN 0 ELSE Count(Head(list).issues, sev) + SumOver(Tail(list), sev)

riskLevelHighFirst(criticalIssues, highIssues, mediumIssues, lowIssues) ==
    IF highIssues > 0 THEN "HIGH"
    ELSE IF criticalIssues > 0 THEN "CRITICAL"
    ELSE IF mediumIssues > 0 THEN "MEDIUM"
    ELSE IF lowIssues > 0 THEN "LOW"
    ELSE "CLEAN"

riskLevelWithoutLow(criticalIssues, highIssues, mediumIssues, lowIssues) ==
    IF criticalIssues > 0 THEN "CRITICAL"
    ELSE IF highIssues > 0 THEN "HIGH"
    ELSE IF mediumIssues > 0 THEN "MEDIUM"
    ELSE "CLEAN"

riskLevel(criticalIssues, highIssues, mediumIssues, lowIssues) ==
    IF criticalIssues > 0 THEN "CRITICAL"
    ELSE IF highIssues > 0 THEN "HIGH"
    ELSE IF mediumIssues > 0 THEN "MEDIUM"
    ELSE IF lowIssues > 0 THEN "LOW"
    ELSE "CLEAN"

\* index.ts:158
totalIssuesWithoutLow(criticalIssues, highIssues, mediumIssues, lowIssues) ==
    criticalIssues + highIssues + mediumIssues

totalIssues(criticalIssues, highIssues, mediumIssues, lowIssues) ==
    criticalIssues + highIssues + mediumIssues + lowIssues

\* index.ts:90-92: a firewall that is not enabled counts as one high issue.
firewallPenaltyWhenNone(firewallStatus) == IF firewallStatus.type = "none" THEN 1 ELSE 0

firewallPenalty(firewallStatus) == IF ~firewallStatus.enabled THEN 1 ELSE 0

\* index.ts:102-104: every secret of the environment counts as high.
envSecretIssuesOnce(processes) == IF Len(processes.secretsInEnv) > 0 THEN 1 ELSE 0

envSecretIssues(processes) == Len(processes.secretsInEnv)

\* index.ts:118-120: every SUID file counts as low.
suidIssuesBySeverity(filesystem) == Count(filesystem.suidFiles, "low")

suidIssues(filesystem) == Len(filesystem.suidFiles)

\* index.ts:128-131: the buckets of npm audit are added to the counters.
dependencyIssuesWithInfo(dependencies, sev) ==
    CASE sev = "critical" -> dependencies.summary.critical
      [] sev = "high" -> dependencies.summary.high
      [] sev = "medium" -> dependencies.summary.moderate
      [] sev = "low" -> dependencies.summary.low + dependencies.summary.info

dependencyIssues(dependencies, sev) ==
    CASE sev = "critical" -> dependencies.summary.critical
      [] sev = "high" -> dependencies.summary.high
      [] sev = "medium" -> dependencies.summary.moderate
      [] sev = "low" -> dependencies.summary.low

calculateSummary(network, processes, filesystem, dependencies, configuration, containers) ==
    LET criticalIssues ==
            Count(network.openPorts, "critical")
            + Count(processes.suspiciousProcesses, "critical")
            + Count(filesystem.sensitiveFileIssues, "critical")
            + dependencyIssues(dependencies, "critical")
            + Count(configuration.sshConfigIssues, "critical")
            + Count(configuration.secretsInConfig, "critical")
            + SumOver(containers.containers, "critical")
        highIssues ==
            Count(network.openPorts, "high")
            + firewallPenalty(network.firewallStatus)
            + Count(processes.suspiciousProcesses, "high")
            + envSecretIssues(processes)
            + Count(filesystem.sensitiveFileIssues, "high")
            + Count(filesystem.exposedSecrets, "high")
            + dependencyIssues(dependencies, "high")
            + Count(configuration.sshConfigIssues, "high")
            + Count(configuration.secretsInConfig, "high")
            + SumOver(containers.containers, "high")
        mediumIssues ==
            Count(network.openPorts, "medium")
            + Count(processes.suspiciousProcesses, "medium")
            + Count(filesystem.sensitiveFileIssues, "medium")
            + Count(filesystem.worldWritableFiles, "medium")
            + Count(filesystem.exposedSecrets, "medium")
            + dependencyIssues(dependencies, "medium")
            + Count(configuration.sshConfigIssues, "medium")
            + Count(configuration.secretsInConfig, "medium")
            + SumOver(containers.containers, "medium")
        lowIssues ==
            Count(network.openPorts, "low")
            + Count(processes.suspiciousProcesses, "low")
            + Count(filesystem.sensitiveFileIssues, "low")
            + suidIssues(filesystem)
            + dependencyIssues(dependencies, "low")
            + Count(configuration.sshConfigIssues, "low")
            + Count(configuration.secretsInConfig, "low")
            + SumOver(containers.containers, "low")
    IN  [totalIssues |-> totalIssues(criticalIssues, highIssues, mediumIssues, lowIssues),
         criticalIssues |-> criticalIssues,
         highIssues |-> highIssues,
         mediumIssues |-> mediumIssues,
         lowIssues |-> lowIssues,
         riskLevel |-> riskLevel(criticalIssues, highIssues, mediumIssues, lowIssues)]

(***************************************************************************)
(* The six domain scanners, seen from runFullScan: promises that settle.   *)
(***************************************************************************)
\* What a scanner can resolve with: the result of a host where nothing is
\* found (or every sub-check failed), and one with findings.
ScanOutputs(d) ==
    CASE d = "network" ->
            {NetworkResult(<<>>, TRUE, "ufw"),
             NetworkResult(<<Finding("critical"), Finding("low")>>, FALSE, "none")}
      [] d = "processes" ->
            {ProcessResult(<<>>, <<>>, <<>>),
             ProcessResult(<<Finding("high")>>, <<Finding("medium")>>, <<[type |-> "Token"]>>)}
      [] d = "filesystem" ->
            {FilesystemResult(<<>>, <<>>, <<>>, <<>>),
             FilesystemResult(<<Finding("critical")>>, <<Finding("medium")>>,
                              <<Finding("low")>>, <<Finding("medium")>>)}
      [] d = "dependencies" ->
            {DependencyResult(FALSE, 0, 0, 0, 0, 0), DependencyResult(TRUE, 1, 0, 2, 0, 1)}
      [] d = "configuration" ->
            {ConfigResult(<<>>, <<>>),
             ConfigResult(<<Finding("high")>>, <<Finding("critical")>>)}
      [] d = "containers" ->
            {ContainerResult(<<>>), ContainerResult(<<Container(<<Finding("high")>>)>>)}

\* The value of a promise that has not been fulfilled.
NoResult(d) ==
    CASE d = "network" -> NetworkResult(<<>>, FALSE, "")
      [] d = "processes" -> ProcessResult(<<>>, <<>>, <<>>)
      [] d = "filesystem" -> FilesystemResult(<<>>, <<>>, <<>>, <<>>)
      [] d = "dependencies" -> DependencyResult(FALSE, 0, 0, 0, 0, 0)
      [] d = "configuration" -> ConfigResult(<<>>, <<>>)
      [] d = "containers" -> ContainerResult(<<>>)

\* Scanners whose body has a throwing call outside every try block
\* (os.homedir(), process.cwd()): their promise can reject.
RejectingScanners == {"filesystem", "dependencies", "configuration"}

\* Scanners that await a child process started without a timeout: their
\* promise can stay pending for ever.
HangingScanners == {"network", "processes"}

Promise(state, value) == [state |-> state, value |-> value]

NoSummary ==
    [totalIssues |-> 0, criticalIssues |-> 0, highIssues |-> 0, mediumIssues |-> 0,
     lowIssues |-> 0, riskLevel |-> ""]

\* index.ts:43-53: the keys of the report, in the order in which the object
\* literal creates them (the order in which JavaScript enumerates them).
ReportKeys ==
    <<"timestamp", "hostname", "network", "processes", "filesystem", "dependencies",
      "configuration", "containers", "summary">>

NoReport ==
    [keys |-> ReportKeys, timestamp |-> 0 - 1, hostname |-> "",
     network |-> NoResult("network"), processes |-> NoResult("processes"),
     filesystem |-> NoResult("filesystem"), dependencies |-> NoResult("dependencies"),
     configuration |-> NoResult("configuration"), containers |-> NoResult("containers"),
     summary |-> NoSummary]

ScanOff ==
    /\ spc = "off"
    /\ hostname = ""
    /\ task = [d \in DomainSet |-> Promise("unborn", NoResult(d))]
    /\ now = 0
    /\ report = NoReport

ScanInit ==
    /\ spc = "idle"
    /\ hostname = ""
    /\ task = [d \in DomainSet |-> Promise("unborn", NoResult(d))]
    /\ now = 0
    /\ report = NoReport

\* The system clock advances.
Tick ==
    /\ spc # "off"
    /\ now < MaxTime
    /\ now' = now + 1
    /\ UNCHANGED <<spc, hostname, task, report>>

\* index.ts:27-28: runFullScan is called and awaits getHostname().
runFullScan ==
    /\ spc = "idle"
    /\ spc' = "hostname"
    /\ UNCHANGED <<hostname, task, now, report>>

\* index.ts:56-67 and 31-38: getHostname settles (the command's output, or
\* 'unknown' when it fails), and the continuation calls the six scanners, one
\* after the other, and awaits Promise.all of their promises.
getHostname ==
    /\ spc = "hostname"
    /\ hostname' \in {"host01", "unknown"}
    /\ task' = [d \in DomainSet |-> Promise("pending", NoResult(d))]
    /\ spc' = "awaitAll"
    /\ UNCHANGED <<now, report>>

\* A scanner's promise is fulfilled with a domain result.
Fulfill(d) ==
    /\ task[d].state = "pending"
    /\ \E r \in ScanOutputs(d) : task' = [task EXCEPT ![d] = Promise("fulfilled", r)]
    /\ UNCHANGED <<spc, hostname, now, report>>

\* A scanner's promise rejects.
Reject(d) ==
    /\ task[d].state = "pending"
    /\ d \in RejectingScanners
    /\ task' = [task EXCEPT ![d] = Promise("rejected", NoResult(d))]
    /\ UNCHANGED <<spc, hostname, now, report>>

\* A scanner's child process never exits: the promise stays pending for ever.
Hang(d) ==
    /\ task[d].state = "pending"
    /\ d \in HangingScanners
    /\ task' = [task EXCEPT ![d] = Promise("hung", NoResult(d))]
    /\ UNCHANGED <<spc, hostname, now, report>>

\* Promise.all is fulfilled once every input promise is fulfilled ...
AllFulfilledDropsOne(t) ==
    \E e \in DomainSet : \A d \in DomainSet \ {e} : t[d].state = "fulfilled"

AllFulfilled(t) == \A d \in DomainSet : t[d].state = "fulfilled"

\* ... and rejects as soon as one input promise rejects.
AnyRejected(t) == \E d \in DomainSet : t[d].state = "rejected"

\* index.ts:41: the summary of the six results of Promise.all.
summaryOfUnsettled(t) ==
    calculateSummary(NoResult("network"), NoResult("processes"), NoResult("filesystem"),
                     NoResult("dependencies"), NoResult("configuration"),
                     NoResult("containers"))

summaryOf(t) ==
    calculateSummary(t["network"].value, t["processes"].value, t["filesystem"].value,
                     t["dependencies"].value, t["configuration"].value,
                     t["containers"].value)

\* index.ts:43-53: the report, with its keys in the order in which the scanners
\* settled instead of the order of the object literal.
BuildReportInCompletionOrder(ts, host, t) ==
    [keys |-> <<"timestamp", "hostname">> \o order \o <<"summary">>,
     timestamp |-> ts,
     hostname |-> host,
     network |-> t["network"].value,
     processes |-> t["processes"].value,
     filesystem |-> t["filesystem"].value,
     dependencies |-> t["dependencies"].value,
     configuration |-> t["configuration"].value,
     containers |-> t["containers"].value,
     summary |-> summaryOf(t)]

BuildReport(ts, host, t) ==
    [keys |-> ReportKeys,
     timestamp |-> ts,
     hostname |-> host,
     network |-> t["network"].value,
     processes |-> t["processes"].value,
     filesystem |-> t["filesystem"].value,
     dependencies |-> t["dependencies"].value,
     configuration |-> t["configuration"].value,
     containers |-> t["containers"].value,
     summary |-> summaryOf(t)]

\* index.ts:44: new Date() reads the clock when the report is built.
newDateAtLoad(clock) == 0

newDate(clock) == clock

\* index.ts:40-53: Promise.all is fulfilled; the continuation computes the
\* summary, reads the clock and returns the report.
Assemble ==
    /\ spc = "awaitAll"
    /\ AllFulfilled(task)
    /\ report' = BuildReport(newDate(now), hostname, task)
    /\ spc' = "returned"
    /\ UNCHANGED <<hostname, task, now>>

\* index.ts:31: Promise.all rejects; nothing catches it, so runFullScan
\* rejects.  The other scanners run on.
Propagate ==
    /\ spc = "awaitAll"
    /\ AnyRejected(task)
    /\ spc' = "rejected"
    /\ UNCHANGED <<hostname, task, now, report>>

ScanNext ==
    \/ (Tick /\ UNCHANGED <<keyVars, cryptoVars, sumVars, auxVars, subVars>>)
    \/ (runFullScan /\ UNCHANGED <<keyVars, cryptoVars, sumVars, auxVars, subVars>>)
    \/ (getHostname /\ UNCHANGED <<keyVars, cryptoVars, sumVars, auxVars, subVars>>)
    \/ \E d \in DomainSet : (Fulfill(d) /\ UNCHANGED <<keyVars, cryptoVars, sumVars, auxVars, subVars>>)
    \/ \E d \in DomainSet : (Reject(d) /\ UNCHANGED <<keyVars, cryptoVars, sumVars, auxVars, subVars>>)
    \/ \E d \in DomainSet : (Hang(d) /\ UNCHANGED <<keyVars, cryptoVars, sumVars, auxVars, subVars>>)
    \/ (Assemble /\ UNCHANGED <<keyVars, cryptoVars, sumVars, auxVars, subVars>>)
    \/ (Propagate /\ UNCHANGED <<keyVars, cryptoVars, sumVars, auxVars, subVars>>)

AuxOff ==
    /\ order = <<>>
    /\ canon = <<>>
    /\ prev = 0 - 1

\* The same scan with the order in which the scanners settle written down:
\* every promise is fulfilled, in any order.
OrderNext ==
    \/ (runFullScan /\ UNCHANGED <<keyVars, cryptoVars, sumVars, auxVars, subVars>>)
    \/ (getHostname /\ UNCHANGED <<keyVars, cryptoVars, sumVars, auxVars, subVars>>)
    \/ \E d \in DomainSet :
          (Fulfill(d) /\ order' = Append(order, d)
                      /\ UNCHANGED <<keyVars, cryptoVars, sumVars, canon, prev, subVars>>)
    \/ (Assemble /\ UNCHANGED <<keyVars, cryptoVars, sumVars, auxVars, subVars>>)

\* The caller starts a second scan after the first has returned; the
\* timestamp of the first report is kept.
ScanAgain ==
    /\ spc = "returned"
    /\ prev < 0
    /\ prev' = report.timestamp
    /\ spc' = "idle"
    /\ hostname' = ""
    /\ task' = [d \in DomainSet |-> Promise("unborn", NoResult(d))]
    /\ report' = NoReport
    /\ UNCHANGED <<now, order, canon>>

\* Two scans, one after the other, in which every scanner resolves.
SeqNext ==
    \/ (Tick /\ UNCHANGED <<keyVars, cryptoVars, sumVars, auxVars, subVars>>)
    \/ (runFullScan /\ UNCHANGED <<keyVars, cryptoVars, sumVars, auxVars, subVars>>)
    \/ (getHostname /\ UNCHANGED <<keyVars, cryptoVars, sumVars, auxVars, subVars>>)
    \/ \E d \in DomainSet :
          (Fulfill(d) /\ UNCHANGED <<keyVars, cryptoVars, sumVars, auxVars, subVars>>)
    \/ (Assemble /\ UNCHANGED <<keyVars, cryptoVars, sumVars, auxVars, subVars>>)
    \/ (ScanAgain /\ UNCHANGED <<keyVars, cryptoVars, sumVars, subVars>>)

(***************************************************************************)
(* Attestation (crypto/keys.ts:51-76), in the symbolic model: a digest is  *)
(* the term sha256(data), an Ed25519 signature is the term made of the     *)
(* signing key and the signed message, and an encoding wraps the bytes it  *)
(* encodes.                                                                *)
(***************************************************************************)
Alphabet == {"a", "b"}
Strings == UNION {[1..n -> Alphabet] : n \in 0..MaxLen}
KeyIds == 1..NumKeys

digest(alg, data) == [alg |-> alg, input |-> data]
toHex(bytes) == [encoding |-> "hex", bytes |-> bytes]
toBase64(bytes) == [encoding |-> "base64", bytes |-> bytes]
BufferFrom(string) == string.bytes

\* keys.ts:51-53
hashData(data) == toHex(digest("sha256", data))

\* Bytes that are the signature of nothing, and the string that encodes them.
JunkBytes == [signer |-> 0, msg |-> digest("", <<>>)]
JunkSignature == toBase64(JunkBytes)

Returned(v) == [threw |-> FALSE, value |-> v]
Threw(v) == [threw |-> TRUE, value |-> v]

\* crypto.sign(null, hash, { key, format: 'pem' }): the Ed25519 signature of
\* hash; throws unless key is the PEM of a private key.
sign(hash, key) ==
    IF key.pem = "PRIVATE KEY"
       THEN Returned([signer |-> key.id, msg |-> hash])
       ELSE Threw(JunkBytes)

\* crypto.verify(null, hash, { key, format: 'pem' }, signature): key goes
\* through createPublicKey, which takes the PEM of a public key, or of a
\* private key (and derives its public half), and throws on anything else.
verifyAnyMessage(hash, key, signature) ==
    IF key.pem \in {"PUBLIC KEY", "PRIVATE KEY"}
       THEN Returned(signature.signer = key.id)
       ELSE Threw(FALSE)

verifyAnySigner(hash, key, signature) ==
    IF key.pem \in {"PUBLIC KEY", "PRIVATE KEY"}
       THEN Returned(signature.signer \in KeyIds /\ signature.msg = hash)
       ELSE Threw(FALSE)

verify(hash, key, signature) ==
    IF key.pem \in {"PUBLIC KEY", "PRIVATE KEY"}
       THEN Returned(signature.signer = key.id /\ signature.msg = hash)
       ELSE Threw(FALSE)

\* keys.ts:55-62
signDataOtherDigest(data, privateKey) ==
    LET signature == sign(digest("sha512", data), privateKey)
    IN  IF signature.threw THEN Threw(JunkSignature)
        ELSE Returned(toBase64(signature.value))

signData(data, privateKey) ==
    LET hash == BufferFrom(hashData(data))
        signature == sign(hash, privateKey)
    IN  IF signature.threw THEN Threw(JunkSignature)
        ELSE Returned(toBase64(signature.value))

\* keys.ts:64-76
verifySignatureNoCatch(data, signature, publicKey) ==
    LET hash == BufferFrom(hashData(data))
        signatureBuffer == BufferFrom(signature)
    IN  verify(hash, publicKey, signatureBuffer)

verifySignature(data, signature, publicKey) ==
    LET hash == BufferFrom(hashData(data))
        signatureBuffer == BufferFrom(signature)
        result == verify(hash, publicKey, signatureBuffer)
    IN  IF result.threw THEN Returned(FALSE) ELSE result

\* The texts a caller can hand over as a key: the PEM of either half of a
\* pair, or something that is no PEM.
KeyTexts == {KeyPem(l, k) : l \in {"PRIVATE KEY", "PUBLIC KEY"}, k \in KeyIds} \cup {NoPem}

\* The strings a caller can hand over as a signature: the encoding of a
\* signature, or of bytes that are none.
SignatureStrings ==
    {toBase64([signer |-> k, msg |-> digest("sha256", d)]) : k \in KeyIds, d \in Strings}
        \cup {JunkSignature}

\* The strings at one edit from data: one element changed, one appended, or
\* the last one removed.
Edits(data) ==
    {[data EXCEPT ![i] = c] : i \in DOMAIN data, c \in Alphabet}
        \cup {Append(data, c) : c \in Alphabet}
        \cup (IF data = <<>> THEN {} ELSE {SubSeq(data, 1, Len(data) - 1)})

CryptoOff ==
    /\ cpc = "off"
    /\ cdata = <<>>
    /\ ckey = NoPem
    /\ csig = JunkSignature
    /\ chash = hashData(<<>>)
    /\ cpub = NoPem
    /\ cres = Returned(FALSE)

CryptoInit ==
    /\ cpc = "start"
    /\ cdata \in Strings
    /\ ckey \in KeyTexts
    /\ csig = JunkSignature
    /\ chash = hashData(<<>>)
    /\ cpub = NoPem
    /\ cres = Returned(FALSE)

\* The artifact (data, hash, signature) is produced with ckey.
Sign ==
    /\ cpc = "start"
    /\ LET signature == signData(cdata, ckey)
       IN  /\ csig' = signature.value
           /\ cpc' = IF signature.threw THEN "signThrew" ELSE "signed"
    /\ chash' = hashData(cdata)
    /\ UNCHANGED <<cdata, ckey, cpub, cres>>

\* The report of the artifact is changed after signing.
TamperData ==
    /\ cpc = "signed"
    /\ cdata' \in (Edits(cdata) \cap Strings) \ {cdata}
    /\ cpc' = "tampered"
    /\ UNCHANGED <<ckey, csig, chash, cpub, cres>>

\* The hash of the artifact is replaced.
TamperHash ==
    /\ cpc = "signed"
    /\ chash' \in {hashData(d) : d \in Strings} \ {chash}
    /\ cpc' = "tampered"
    /\ UNCHANGED <<cdata, ckey, csig, cpub, cres>>

\* The signature of the artifact is replaced.
TamperSignature ==
    /\ cpc = "signed"
    /\ csig' \in SignatureStrings \ {csig}
    /\ cpc' = "tampered"
    /\ UNCHANGED <<cdata, ckey, chash, cpub, cres>>

\* The artifact is verified against some key.
Verify ==
    /\ cpc \in {"signed", "tampered"}
    /\ \E k \in KeyTexts :
          /\ cpub' = k
          /\ cres' = verifySignature(cdata, csig, k)
    /\ cpc' = "verified"
    /\ UNCHANGED <<cdata, ckey, csig, chash>>

CryptoNext ==
    \/ (Sign /\ UNCHANGED <<keyVars, scanVars, sumVars, auxVars, subVars>>)
    \/ (TamperData /\ UNCHANGED <<keyVars, scanVars, sumVars, auxVars, subVars>>)
    \/ (TamperHash /\ UNCHANGED <<keyVars, scanVars, sumVars, auxVars, subVars>>)
    \/ (TamperSignature /\ UNCHANGED <<keyVars, scanVars, sumVars, auxVars, subVars>>)
    \/ (Verify /\ UNCHANGED <<keyVars, scanVars, sumVars, auxVars, subVars>>)

(***************************************************************************)
(* Canonical serializer.  A serialization is the sequence of the report's  *)
(* key/value pairs in the order in which they are written; hashData is     *)
(* applied to it.                                                          *)
(***************************************************************************)
\* The fixed order of the keys: timestamp, hostname, the six domains in their
\* order, summary.
CanonicalOrder == <<"timestamp", "hostname">> \o Domains \o <<"summary">>

\* A serializer that writes the keys as the object enumerates them.
canonicalizeInsertionOrder(r) == [i \in DOMAIN r.keys |-> <<r.keys[i], r[r.keys[i]]>>]

canonicalize(r) == [i \in DOMAIN CanonicalOrder |-> <<CanonicalOrder[i], r[CanonicalOrder[i]]>>]

Reverse(seq) == [i \in DOMAIN seq |-> seq[Len(seq) + 1 - i]]

\* The key orders that the in-memory representations of a report have here:
\* the one of the object literal, its reverse, and the alphabetical one.
KeyOrders ==
    {ReportKeys, Reverse(ReportKeys),
     <<"configuration", "containers", "dependencies", "filesystem", "hostname",
       "network", "processes", "summary", "timestamp">>}

\* The returned report is rebuilt in memory with its keys in another order
\* (read back from a file, copied field by field): the same logical report.
Reload ==
    /\ spc = "returned"
    /\ \E ks \in KeyOrders \ {report.keys} : report' = [report EXCEPT !.keys = ks]
    /\ UNCHANGED <<spc, hostname, task, now, order, canon, prev>>

\* The report is serialized and the serialization is hashed.
Canonicalize ==
    /\ spc = "returned"
    /\ Len(canon) < MaxCanon
    /\ canon' = Append(canon, [keys |-> report.keys,
                               bytes |-> canonicalize(report),
                               hash |-> hashData(canonicalize(report))])
    /\ UNCHANGED <<scanVars, order, prev>>

CanonNext ==
    \/ (runFullScan /\ UNCHANGED <<keyVars, cryptoVars, sumVars, auxVars, subVars>>)
    \/ (getHostname /\ UNCHANGED <<keyVars, cryptoVars, sumVars, auxVars, subVars>>)
    \/ \E d \in DomainSet : (Fulfill(d) /\ UNCHANGED <<keyVars, cryptoVars, sumVars, auxVars, subVars>>)
    \/ (Assemble /\ UNCHANGED <<keyVars, cryptoVars, sumVars, auxVars, subVars>>)
    \/ (Reload /\ UNCHANGED <<keyVars, cryptoVars, sumVars, subVars>>)
    \/ (Canonicalize /\ UNCHANGED <<keyVars, cryptoVars, sumVars, subVars>>)

(***************************************************************************)
(* The risk aggregator on its own: a result set is built entry by entry,   *)
(* as the scanners build it, and calculateSummary is applied to it.        *)
(***************************************************************************)
\* The lists of a result set whose entries carry a severity, with the
\* severities that the scanner puts there.
ScannerSeverities(list) ==
    CASE list = "openPorts" -> {"critical", "high", "medium", "low"}
      [] list = "suspiciousProcesses" -> {"critical", "high"}
      [] list = "privilegedProcesses" -> {"medium"}
      [] list = "sensitiveFileIssues" -> {"critical", "high", "medium"}
      [] list = "worldWritableFiles" -> {"medium"}
      [] list = "suidFiles" -> {"low"}
      [] list = "exposedSecrets" -> {"medium", "high"}
      [] list = "sshConfigIssues" -> {"critical", "high", "medium"}
      [] list = "secretsInConfig" -> {"critical", "high"}
      [] list = "containerIssues" -> Severities

FindingLists ==
    {"openPorts", "suspiciousProcesses", "privilegedProcesses", "sensitiveFileIssues",
     "worldWritableFiles", "suidFiles", "exposedSecrets", "sshConfigIssues",
     "secretsInConfig", "containerIssues"}

\* checkFirewall's four outcomes.
FirewallStatuses ==
    {[enabled |-> TRUE, type |-> "ufw"], [enabled |-> TRUE, type |-> "iptables"],
     [enabled |-> FALSE, type |-> "none"], [enabled |-> FALSE, type |-> "unknown"]}

Buckets == {"critical", "high", "moderate", "low", "info"}

ResultSet(n, p, f, d, c, k) ==
    [network |-> n, processes |-> p, filesystem |-> f, dependencies |-> d,
     configuration |-> c, containers |-> k]

\* What the six scanners return on a host where nothing is found.
EmptyResultSet(firewall) ==
    ResultSet([NetworkResult(<<>>, TRUE, "") EXCEPT !.firewallStatus = firewall],
              ProcessResult(<<>>, <<>>, <<>>),
              FilesystemResult(<<>>, <<>>, <<>>, <<>>),
              DependencyResult(FALSE, 0, 0, 0, 0, 0),
              ConfigResult(<<>>, <<>>),
              ContainerResult(<<>>))

\* The result set rs with finding f pushed onto one of its lists; a container
\* issue goes to the last container.
Push(rs, list, f) ==
    CASE list = "openPorts" -> [rs EXCEPT !.network.openPorts = Append(@, f)]
      [] list = "suspiciousProcesses" ->
            [rs EXCEPT !.processes.suspiciousProcesses = Append(@, f)]
      [] list = "privilegedProcesses" ->
            [rs EXCEPT !.processes.privilegedProcesses = Append(@, f)]
      [] list = "sensitiveFileIssues" ->
            [rs EXCEPT !.filesystem.sensitiveFileIssues = Append(@, f)]
      [] list = "worldWritableFiles" ->
            [rs EXCEPT !.filesystem.worldWritableFiles = Append(@, f)]
      [] list = "suidFiles" -> [rs EXCEPT !.filesystem.suidFiles = Append(@, f)]
      [] list = "exposedSecrets" -> [rs EXCEPT !.filesystem.exposedSecrets = Append(@, f)]
      [] list = "sshConfigIssues" ->
            [rs EXCEPT !.configuration.sshConfigIssues = Append(@, f)]
      [] list = "secretsInConfig" ->
            [rs EXCEPT !.configuration.secretsInConfig = Append(@, f)]
      [] list = "containerIssues" ->
            LET cs == rs.containers.containers
            IN  IF cs = <<>>
                   THEN [rs EXCEPT !.containers.containers = <<Container(<<f>>)>>]
                   ELSE [rs EXCEPT !.containers.containers[Len(cs)].issues = Append(@, f)]

RECURSIVE IssuesIn(_)
IssuesIn(cs) == IF cs = <<>> THEN 0 ELSE 1 + Len(Head(cs).issues) + IssuesIn(Tail(cs))

\* The number of entries of a result set.
Entries(rs) ==
    Len(rs.network.openPorts)
    + Len(rs.processes.suspiciousProcesses) + Len(rs.processes.privilegedProcesses)
    + Len(rs.processes.secretsInEnv)
    + Len(rs.filesystem.sensitiveFileIssues) + Len(rs.filesystem.worldWritableFiles)
    + Len(rs.filesystem.suidFiles) + Len(rs.filesystem.exposedSecrets)
    + rs.dependencies.summary.critical + rs.dependencies.summary.high
    + rs.dependencies.summary.moderate + rs.dependencies.summary.low
    + rs.dependencies.summary.info
    + Len(rs.configuration.sshConfigIssues) + Len(rs.configuration.secretsInConfig)
    + IssuesIn(rs.containers.containers)

SumOff ==
    /\ sphase = "off"
    /\ rset = EmptyResultSet([enabled |-> TRUE, type |-> ""])
    /\ injected = ""
    /\ summary = NoSummary

SumInit ==
    /\ sphase = "build"
    /\ \E fw \in FirewallStatuses : rset = EmptyResultSet(fw)
    /\ injected = ""
    /\ summary = NoSummary

\* A scanner adds a finding to one of its lists.
AddFinding(list, sev) ==
    /\ sphase = "build"
    /\ Entries(rset) < MaxFindings
    /\ sev \in ScannerSeverities(list)
    /\ rset' = Push(rset, list, Finding(sev))
    /\ UNCHANGED <<sphase, injected, summary>>

\* scanEnvironmentVariables adds a secret.
AddSecretInEnv ==
    /\ sphase = "build"
    /\ Entries(rset) < MaxFindings
    /\ rset' = [rset EXCEPT !.processes.secretsInEnv = Append(@, [type |-> "Token"])]
    /\ UNCHANGED <<sphase, injected, summary>>

\* npm audit reports one more vulnerability in a severity bucket.
AddVulnerability(bucket) ==
    /\ sphase = "build"
    /\ Entries(rset) < MaxFindings
    /\ rset' = [rset EXCEPT !.dependencies.hasPackageJson = TRUE,
                            !.dependencies.vulnerabilities = Append(@, Finding(bucket)),
                            !.dependencies.totalVulnerabilities = @ + 1,
                            !.dependencies.summary[bucket] = @ + 1]
    /\ UNCHANGED <<sphase, injected, summary>>

\* scanContainers lists one more container.
AddContainer ==
    /\ sphase = "build"
    /\ Entries(rset) < MaxFindings
    /\ rset' = [rset EXCEPT !.containers.containers = Append(@, Container(<<>>))]
    /\ UNCHANGED <<sphase, injected, summary>>

\* One finding of severity critical is put into a list of the result set.
InjectCritical(list) ==
    /\ sphase = "build"
    /\ rset' = Push(rset, list, Finding("critical"))
    /\ injected' = list
    /\ sphase' = "injected"
    /\ UNCHANGED summary

\* index.ts:41: calculateSummary is applied to the result set.
Summarize ==
    /\ sphase \in {"build", "injected"}
    /\ summary' = calculateSummary(rset.network, rset.processes, rset.filesystem,
                                   rset.dependencies, rset.configuration, rset.containers)
    /\ sphase' = "summarized"
    /\ UNCHANGED <<rset, injected>>

SumNext ==
    \/ \E list \in FindingLists, sev \in Severities :
          (AddFinding(list, sev) /\ UNCHANGED <<keyVars, scanVars, cryptoVars, auxVars, subVars>>)
    \/ (AddSecretInEnv /\ UNCHANGED <<keyVars, scanVars, cryptoVars, auxVars, subVars>>)
    \/ \E bucket \in Buckets :
          (AddVulnerability(bucket) /\ UNCHANGED <<keyVars, scanVars, cryptoVars, auxVars, subVars>>)
    \/ (AddContainer /\ UNCHANGED <<keyVars, scanVars, cryptoVars, auxVars, subVars>>)
    \/ \E list \in FindingLists :
          (InjectCritical(list) /\ UNCHANGED <<keyVars, scanVars, cryptoVars, auxVars, subVars>>)
    \/ (Summarize /\ UNCHANGED <<keyVars, scanVars, cryptoVars, auxVars, subVars>>)

(***************************************************************************)
(* One domain scanner (scanners/*.ts).  A scanner starts its sub-checks,   *)
(* awaits Promise.all of them and returns the lists they return.  A        *)
(* sub-check wraps its commands and file accesses in try blocks; some call *)
(* os.homedir() or process.cwd() before any try block.                     *)
(***************************************************************************)
ScannersInSrc == {"network", "processes", "filesystem", "dependencies", "configuration"}

\* scanDependencies has no sub-functions: its body is its one sub-check.
SubChecks(d) ==
    CASE d = "network" -> {"scanPorts", "checkFirewall", "getListeningServices"}
      [] d = "processes" ->
            {"findSuspiciousProcesses", "findPrivilegedProcesses", "scanEnvironmentVariables"}
      [] d = "filesystem" ->
            {"checkSensitiveFiles", "findWorldWritableFiles", "findSuidFiles",
             "findExposedSecrets"}
      [] d = "dependencies" -> {"scanDependencies"}
      [] d = "configuration" -> {"checkSSHConfig", "scanForSecrets"}
      [] OTHER -> {}

\* Sub-checks that call os.homedir() or process.cwd() outside every try block.
Unguarded == {"checkSensitiveFiles", "findExposedSecrets", "scanDependencies", "scanForSecrets"}

\* Sub-checks that await a command started without a timeout.
Untimed ==
    {"scanPorts", "checkFirewall", "getListeningServices", "findSuspiciousProcesses",
     "findPrivilegedProcesses"}

\* The failures that reach a catch block of the sub-check.
CaughtFailures == {"missing binary", "unreadable file", "command timeout", "unparsable output"}

SubOff ==
    /\ sdom = ""
    /\ sub = [c \in SubChecks("") |-> "running"]
    /\ sres = "off"

\* A scanner has been called: its sub-checks run and its promise is pending.
SubInit ==
    /\ sdom \in ScannersInSrc
    /\ sub = [c \in SubChecks(sdom) |-> "running"]
    /\ sres = "pending"

\* A sub-check returns the list of what it found.
SubReturn(c) ==
    /\ sub[c] = "running"
    /\ sub' = [sub EXCEPT ![c] = "returned"]
    /\ UNCHANGED <<sdom, sres>>

\* A command or a file access of the sub-check fails inside a try block: the
\* catch swallows the error and the sub-check returns an empty or partial
\* list.  A command without a timeout never times out.
SubCatch(c, failure) ==
    /\ sub[c] = "running"
    /\ failure = "command timeout" => c \notin Untimed
    /\ sub' = [sub EXCEPT ![c] = "degraded"]
    /\ UNCHANGED <<sdom, sres>>

\* os.homedir() or process.cwd() throws (no home directory, working
\* directory removed) before the first try block: the sub-check's promise
\* rejects.
SubThrow(c) ==
    /\ sub[c] = "running"
    /\ c \in Unguarded
    /\ sub' = [sub EXCEPT ![c] = "threw"]
    /\ UNCHANGED <<sdom, sres>>

\* The command of a sub-check without a timeout does not end.
SubHang(c) ==
    /\ sub[c] = "running"
    /\ c \in Untimed
    /\ sub' = [sub EXCEPT ![c] = "hung"]
    /\ UNCHANGED <<sdom, sres>>

\* Promise.all of the sub-checks is fulfilled and the scanner returns its
\* result.
SubResolve ==
    /\ sres = "pending"
    /\ \A c \in SubChecks(sdom) : sub[c] \in {"returned", "degraded"}
    /\ sres' = "resolved"
    /\ UNCHANGED <<sdom, sub>>

\* Promise.all of the sub-checks rejects; the scanner has no catch.
SubReject ==
    /\ sres = "pending"
    /\ \E c \in SubChecks(sdom) : sub[c] = "threw"
    /\ sres' = "rejected"
    /\ UNCHANGED <<sdom, sub>>

SubNext ==
    \/ \E c \in SubChecks(sdom) :
          (SubReturn(c) /\ UNCHANGED <<keyVars, scanVars, cryptoVars, sumVars, auxVars>>)
    \/ \E c \in SubChecks(sdom), failure \in CaughtFailures :
          (SubCatch(c, failure) /\ UNCHANGED <<keyVars, scanVars, cryptoVars, sumVars, auxVars>>)
    \/ \E c \in SubChecks(sdom) :
          (SubThrow(c) /\ UNCHANGED <<keyVars, scanVars, cryptoVars, sumVars, auxVars>>)
    \/ \E c \in SubChecks(sdom) :
          (SubHang(c) /\ UNCHANGED <<keyVars, scanVars, cryptoVars, sumVars, auxVars>>)
    \/ (SubResolve /\ UNCHANGED <<keyVars, scanVars, cryptoVars, sumVars, auxVars>>)
    \/ (SubReject /\ UNCHANGED <<keyVars, scanVars, cryptoVars, sumVars, auxVars>>)

(***************************************************************************)
(* Specifications.                                                         *)
(***************************************************************************)
KeyStoreInit == KeyInit /\ ScanOff /\ CryptoOff /\ SumOff /\ AuxOff /\ SubOff
OrchestratorInit == KeyOff /\ ScanInit /\ CryptoOff /\ SumOff /\ AuxOff /\ SubOff
AttestationInit == KeyOff /\ ScanOff /\ CryptoInit /\ SumOff /\ AuxOff /\ SubOff
AggregatorInit == KeyOff /\ ScanOff /\ CryptoOff /\ SumInit /\ AuxOff /\ SubOff
ScannerInit == KeyOff /\ ScanOff /\ CryptoOff /\ SumOff /\ AuxOff /\ SubInit

KeySpec == KeyStoreInit /\ [][KeyNext]_vars
ScanSpec == OrchestratorInit /\ [][ScanNext]_vars
CryptoSpec == AttestationInit /\ [][CryptoNext]_vars
SumSpec == AggregatorInit /\ [][SumNext]_vars
OrderSpec == OrchestratorInit /\ [][OrderNext]_vars
CanonSpec == OrchestratorInit /\ [][CanonNext]_vars
SubSpec == ScannerInit /\ [][SubNext]_vars
SeqSpec == OrchestratorInit /\ [][SeqNext]_vars

\* runFullScan under the scheduling of the JavaScript runtime: a callback
\* that is ready runs, and a scanner that can settle does, unless it hangs.
FairScanSpec ==
    /\ ScanSpec
    /\ WF_vars(runFullScan /\ UNCHANGED <<keyVars, cryptoVars, sumVars, auxVars, subVars>>)
    /\ WF_vars(getHostname /\ UNCHANGED <<keyVars, cryptoVars, sumVars, auxVars, subVars>>)
    /\ WF_vars(Assemble /\ UNCHANGED <<keyVars, cryptoVars, sumVars, auxVars, subVars>>)
    /\ WF_vars(Propagate /\ UNCHANGED <<keyVars, cryptoVars, sumVars, auxVars, subVars>>)
    /\ \A d \in DomainSet :
          WF_vars((Fulfill(d) \/ Reject(d) \/ Hang(d)) /\ UNCHANGED <<keyVars, cryptoVars, sumVars, auxVars, subVars>>)

Init == KeyStoreInit \/ OrchestratorInit \/ AttestationInit \/ AggregatorInit \/ ScannerInit

Next == KeyNext \/ ScanNext \/ CryptoNext \/ SumNext \/ OrderNext \/ CanonNext \/ SubNext \/ SeqNext

Spec == Init /\ [][Next]_vars

(***************************************************************************)
(* Key store properties.                                                   *)
(***************************************************************************)
\* What the two key files hold.
StoredPair == [privateKey |-> privFile.content, publicKey |-> pubFile.content]

\* C1: no step of ensureKeysExist / generateKeys, by any process, changes the
\* contents of the private key file once that file exists.
C1_PrivateKeyNeverOverwritten ==
    [][privFile.exists => (privFile'.exists /\ privFile'.content = privFile.content)]_vars

\* C2: starting with no key files, whenever two processes have both got a key
\* pair from their first call of ensureKeysExist, however their steps
\* interleaved, they got the same pair and it is the pair on disk.
C2_RacersAgree ==
    (~kinit.priv.exists /\ ~kinit.pub.exists) =>
        \A p, q \in Procs :
            (/\ p # q
             /\ Len(kret[p]) >= 1 /\ kret[p][1].ok
             /\ Len(kret[q]) >= 1 /\ kret[q][1].ok)
            => /\ kret[p][1].pair = kret[q][1].pair
               /\ StoredPair = kret[p][1].pair

(***************************************************************************)
(* Orchestrator properties.                                                *)
(***************************************************************************)
\* C3: runFullScan never rejects, whichever scanners reject.
C3_ScanNeverRejects == spc # "rejected"

\* One scanner never completes and the five others have resolved.
OneHungOthersResolved ==
    /\ spc = "awaitAll"
    /\ \E h \in DomainSet :
          /\ task[h].state = "hung"
          /\ \A d \in DomainSet \ {h} : task[d].state = "fulfilled"

\* C4: when one scanner never completes and the others have resolved,
\* runFullScan eventually returns a report.
C4_HungScannerStillReturns == OneHungOthersResolved ~> (spc = "returned")

\* C5: a report exists only once runFullScan has returned, and runFullScan has
\* returned only if all six scanners' promises are fulfilled; the report
\* holds their six results.
C5_Barrier ==
    /\ (report # NoReport) => (spc = "returned")
    /\ (spc = "returned") =>
          /\ AllFulfilled(task)
          /\ report.network = task["network"].value
          /\ report.processes = task["processes"].value
          /\ report.filesystem = task["filesystem"].value
          /\ report.dependencies = task["dependencies"].value
          /\ report.configuration = task["configuration"].value
          /\ report.containers = task["containers"].value

\* runFullScan has returned a report that has findings.
C5_Witness == spc = "returned" /\ report.summary.totalIssues > 0

(***************************************************************************)
(* Attestation properties.                                                 *)
(***************************************************************************)
\* The artifact's signature is the one signData makes of data d with ckey,
\* a private key.
SignedBy(d) ==
    /\ ckey.pem = "PRIVATE KEY"
    /\ csig = signData(d, ckey).value

\* The key handed to verifySignature is the public half of ckey's pair.
MatchingKey == cpub = KeyPem("PUBLIC KEY", ckey.id)

\* C6: verifying data with the signature signData made of it and the public
\* key of the same pair returns true.
C6_RoundTrip ==
    (cpc = "verified" /\ SignedBy(cdata) /\ MatchingKey) =>
        (~cres.threw /\ cres.value = TRUE)

C6_Witness == cpc = "verified" /\ SignedBy(cdata) /\ MatchingKey /\ Len(cdata) = MaxLen

\* C7: verifying a report that differs from the signed one, with the
\* original signature and the public key of the signing pair, returns false.
C7_TamperDetected ==
    \A d \in Strings :
        (cpc = "verified" /\ d # cdata /\ SignedBy(d) /\ MatchingKey) =>
            (cres.value = FALSE)

\* One element was appended to the signed report before it was verified.
C7_Witness ==
    /\ cpc = "verified"
    /\ MatchingKey
    /\ \E d \in Strings, c \in Alphabet : cdata = Append(d, c) /\ SignedBy(d)

\* C8: verifying a correctly signed report against the public key of another
\* pair returns false.
C8_WrongKeyRejected ==
    (/\ cpc = "verified"
     /\ SignedBy(cdata)
     /\ cpub.pem = "PUBLIC KEY"
     /\ cpub.id # ckey.id)
    => (cres.value = FALSE)

C8_Witness ==
    /\ cpc = "verified"
    /\ SignedBy(cdata)
    /\ cpub.pem = "PUBLIC KEY"
    /\ cpub.id # ckey.id
    /\ cdata # <<>>

\* C9: when the artifact's hash differs from the digest of its report,
\* verification returns false.
C9_HashMismatchRejected ==
    (cpc = "verified" /\ chash # hashData(cdata)) => (cres.value = FALSE)

\* C10: verifySignature returns a boolean for every input, and false when
\* the key is no PEM or the signature is no signature.
C10_VerifyNeverThrows ==
    (cpc = "verified") =>
        /\ ~cres.threw
        /\ cres.value \in BOOLEAN
        /\ (cpub = NoPem \/ csig = JunkSignature) => (cres.value = FALSE)

\* Empty data, a malformed signature and a key that is no PEM were verified.
C10_Witness ==
    /\ cpc = "verified"
    /\ cdata = <<>>
    /\ csig = JunkSignature
    /\ cpub = NoPem

\* C11: when one process alone calls ensureKeysExist twice in a row and the
\* first call returns a pair, the second call returns the same pair.
C11_SecondCallSamePair ==
    \A p \in Procs :
        (/\ \A q \in Procs \ {p} : kret[q] = <<>> /\ kpc[q] = "idle"
         /\ Len(kret[p]) >= 2
         /\ kret[p][1].ok)
        => kret[p][2] = kret[p][1]

\* Process p's step is an fs call of generateKeys that failed: the mkdir left
\* no directory, or a write left the file without the generated key.
FailedStep(p) ==
    \/ kpc[p] = "mkdir" /\ kpc'[p] # "mkdir" /\ ~dirExists'
    \/ kpc[p] = "writePriv" /\ kpc'[p] # "writePriv"
          /\ privFile'.content # kgen[p].privateKey
    \/ kpc[p] = "writePub" /\ kpc'[p] # "writePub"
          /\ pubFile'.content # kgen[p].publicKey

\* C20: a failing mkdir or key file write ends the ensureKeysExist call by a
\* rejection: no key pair is returned.
C20_GenerationFailureIsFatal ==
    [][\A p \in Procs :
          FailedStep(p) =>
              /\ Len(kret'[p]) = Len(kret[p]) + 1
              /\ ~kret'[p][Len(kret'[p])].ok
              /\ kret'[p][Len(kret'[p])].pair = NoPair]_vars

\* A call was rejected after its private key write and before its public
\* key write took effect.
C20_Witness ==
    \E p \in Procs :
        /\ kpc[p] = "idle"
        /\ Len(kret[p]) >= 1
        /\ ~kret[p][Len(kret[p])].ok
        /\ privFile.content = kgen[p].privateKey
        /\ pubFile.content # kgen[p].publicKey

(***************************************************************************)
(* Risk aggregator.                                                        *)
(***************************************************************************)
Summarized == sphase = "summarized"

\* The level that the ladder assigns, stated rung by rung.
OnLadder(level, c, h, m, l) ==
    /\ level \in {"CRITICAL", "HIGH", "MEDIUM", "LOW", "CLEAN"}
    /\ (level = "CRITICAL") <=> (c > 0)
    /\ (level = "HIGH") <=> (c = 0 /\ h > 0)
    /\ (level = "MEDIUM") <=> (c = 0 /\ h = 0 /\ m > 0)
    /\ (level = "LOW") <=> (c = 0 /\ h = 0 /\ m = 0 /\ l > 0)
    /\ (level = "CLEAN") <=> (c = 0 /\ h = 0 /\ m = 0 /\ l = 0)

C13_InjectedCriticalIsCritical ==
    (Summarized /\ injected # "") => summary.riskLevel = "CRITICAL"

RECURSIVE AllIssues(_)
AllIssues(cs) == IF cs = <<>> THEN <<>> ELSE Head(cs).issues \o AllIssues(Tail(cs))

\* Every entry of a result set that carries a severity.
AllFindings(rs) ==
    rs.network.openPorts
    \o rs.processes.suspiciousProcesses \o rs.processes.privilegedProcesses
    \o rs.filesystem.sensitiveFileIssues \o rs.filesystem.worldWritableFiles
    \o rs.filesystem.suidFiles \o rs.filesystem.exposedSecrets
    \o rs.configuration.sshConfigIssues \o rs.configuration.secretsInConfig
    \o AllIssues(rs.containers.containers)

\* The structural penalties: a disabled firewall and every secret of the
\* environment count as high, the dependency buckets are added verbatim.
Penalty(rs, sev) ==
    CASE sev = "critical" -> rs.dependencies.summary.critical
      [] sev = "high" -> (IF rs.network.firewallStatus.enabled THEN 0 ELSE 1)
                         + Len(rs.processes.secretsInEnv)
                         + rs.dependencies.summary.high
      [] sev = "medium" -> rs.dependencies.summary.moderate
      [] sev = "low" -> rs.dependencies.summary.low

Counter(sm, sev) ==
    CASE sev = "critical" -> sm.criticalIssues
      [] sev = "high" -> sm.highIssues
      [] sev = "medium" -> sm.mediumIssues
      [] sev = "low" -> sm.lowIssues

\* C14: for a result set as the scanners produce it, each severity counter is
\* the number of findings of that severity in all the lists of the six domain
\* results, plus the structural penalties: no finding is left uncounted.
C14_EveryFindingCounted ==
    (Summarized /\ injected = "") =>
        \A sev \in Severities :
            Counter(summary, sev) = Count(AllFindings(rset), sev) + Penalty(rset, sev)

\* C15: totalIssues is criticalIssues + highIssues + mediumIssues + lowIssues,
\* and the five counters are non-negative integers.
C15_TotalIsSum ==
    Summarized =>
        /\ summary.totalIssues = summary.criticalIssues + summary.highIssues
                                 + summary.mediumIssues + summary.lowIssues
        /\ \A n \in {summary.totalIssues, summary.criticalIssues, summary.highIssues,
                     summary.mediumIssues, summary.lowIssues} : n \in Nat

C15_Witness ==
    /\ Summarized
    /\ summary.lowIssues > 0
    /\ summary.criticalIssues > 0
    /\ summary.totalIssues > 1

(***************************************************************************)
(* Orchestrator: failure isolation and the summary of the report.          *)
(***************************************************************************)
\* The empty result that a stubbed scanner of domain d returns.
Stub(d) ==
    CASE d = "network" -> NetworkResult(<<>>, TRUE, "ufw")
      [] d = "processes" -> ProcessResult(<<>>, <<>>, <<>>)
      [] d = "filesystem" -> FilesystemResult(<<>>, <<>>, <<>>, <<>>)
      [] d = "dependencies" -> DependencyResult(FALSE, 0, 0, 0, 0, 0)
      [] d = "configuration" -> ConfigResult(<<>>, <<>>)
      [] d = "containers" -> ContainerResult(<<>>)

\* The summary of the run in which the scanner of domain e is stubbed and the
\* other five scanners return what they returned in this run.
SummaryWithStub(e) ==
    LET r == [d \in DomainSet |-> IF d = e THEN Stub(d) ELSE task[d].value]
    IN  calculateSummary(r["network"], r["processes"], r["filesystem"],
                         r["dependencies"], r["configuration"], r["containers"])

\* C16: once one scanner has failed, the other five have returned and the
\* orchestrator has left its barrier, a report has been returned that holds
\* the findings of the other five domains and the riskLevel of the run in
\* which the failed scanner is stubbed to return an empty result.
C16_FailureIsolated ==
    \A e \in DomainSet :
        (/\ task[e].state = "rejected"
         /\ \A d \in DomainSet \ {e} : task[d].state = "fulfilled"
         /\ spc # "awaitAll")
        => /\ spc = "returned"
           /\ \A d \in DomainSet \ {e} : report[d] = task[d].value
           /\ report.summary.riskLevel = SummaryWithStub(e).riskLevel

\* C19: the summary stored in a returned report is calculateSummary of that
\* report's six domain results, and the domain results of the report are the
\* ones the scanners returned: computing the summary changed none of them.
C19_SummaryIsDerived ==
    spc = "returned" =>
        /\ report.summary =
              calculateSummary(report.network, report.processes, report.filesystem,
                               report.dependencies, report.configuration,
                               report.containers)
        /\ \A d \in DomainSet : report[d] = task[d].value

C19_Witness ==
    /\ spc = "returned"
    /\ report.summary.criticalIssues > 0
    /\ report.summary.lowIssues > 0
    /\ report.summary.riskLevel = "CRITICAL"

IsDomain(k) == k \in DomainSet

\* C17: whatever the order in which the six scanners complete, the returned
\* report gives each domain the result of its own scanner, lists the domains
\* in the order network, processes, filesystem, dependencies, configuration,
\* containers, and holds the summary of these six results.
C17_CompletionOrderNeverLeaks ==
    spc = "returned" =>
        /\ \A d \in DomainSet : report[d] = task[d].value
        /\ SelectSeq(report.keys, IsDomain) = Domains
        /\ report.summary =
              calculateSummary(task["network"].value, task["processes"].value,
                               task["filesystem"].value, task["dependencies"].value,
                               task["configuration"].value, task["containers"].value)

C17_Witness ==
    /\ spc = "returned"
    /\ Len(order) = Len(Domains)
    /\ order[1] = "containers"
    /\ order[Len(order)] = "network"

(***************************************************************************)
(* Canonical serializer.                                                   *)
(***************************************************************************)
\* C18: the serializations of one logical report, whatever the key order of
\* the representation they are made from, are the same bytes and have the
\* same hash.
C18_CanonicalizeIsOrderStable ==
    \A i, j \in DOMAIN canon :
        /\ canon[i].bytes = canon[j].bytes
        /\ canon[i].hash = canon[j].hash

C18_Witness ==
    /\ Len(canon) >= 2
    /\ canon[1].keys # canon[2].keys
    /\ report.summary.totalIssues > 0

(***************************************************************************)
(* Key store: the load path, the modes and the pairing of the two files.   *)
(***************************************************************************)
BothReadableAtStart ==
    /\ kinit.priv.exists /\ kinit.priv.readable
    /\ kinit.pub.exists /\ kinit.pub.readable

StoredAtStart == [privateKey |-> kinit.priv.content, publicKey |-> kinit.pub.content]

\* C23: when both key files are present and readable, every call of
\* ensureKeysExist returns their stored contents, no call reaches
\* generateKeys, nothing is generated and both files keep their contents and
\* their modes.
C23_LoadLeavesFilesAlone ==
    BothReadableAtStart =>
        /\ privFile = kinit.priv
        /\ pubFile = kinit.pub
        /\ nextKey = 1
        /\ \A p \in Procs :
              /\ kpc[p] \in {"idle", "readPriv", "readPub"}
              /\ kgen[p] = NoPair
              /\ \A i \in DOMAIN kret[p] : kret[p][i] = Resolved(StoredAtStart)

C23_Witness ==
    /\ BothReadableAtStart
    /\ kinit.priv.mode = MODE_PUBLIC
    /\ \E p \in Procs : Len(kret[p]) >= 2

\* The last call of process p succeeded by generating the pair that the
\* private key file holds.
GeneratedAndStored(p) ==
    /\ kpc[p] = "idle" /\ Len(kret[p]) >= 1
    /\ kret[p][Len(kret[p])].ok
    /\ kgen[p] # NoPair
    /\ kret[p][Len(kret[p])].pair = kgen[p]
    /\ privFile.content = kgen[p].privateKey
    /\ pubFile.content = kgen[p].publicKey

\* The key files that existed at the start could be read.
ReadableAtStart ==
    /\ kinit.priv.exists => kinit.priv.readable
    /\ kinit.pub.exists => kinit.pub.readable

\* C24: after a successful ensureKeysExist that generated the stored pair,
\* the private key file has mode 0600 and the public key file mode 0644, also
\* when a (readable) file of that name existed before the generation.
C24_ModesAfterGeneration ==
    \A p \in Procs :
        (ReadableAtStart /\ GeneratedAndStored(p)) =>
            /\ privFile.mode = MODE_PRIVATE
            /\ pubFile.mode = MODE_PUBLIC

\* C30: whenever both key files exist, the public key file holds the public
\* half of the pair whose private half the private key file holds.
C30_FilesHoldOnePair ==
    (privFile.exists /\ pubFile.exists) => pubFile.content.id = privFile.content.id

(***************************************************************************)
(* Domain scanners.                                                        *)
(***************************************************************************)
\* C21: a domain scanner never throws: whatever fails inside its sub-checks,
\* the promise that the scanner returned does not reject.
C21_ScannerNeverThrows == sres # "rejected"

(***************************************************************************)
(* Orchestrator: when the report is stamped.                               *)
(***************************************************************************)
HostnameObtained == hostname = "" /\ hostname' # ""
TimestampObtained == report' # report /\ report' # NoReport

\* C22: the hostname and the timestamp are both obtained when every scanner
\* has resolved, and of two scans made one after the other the earlier
\* report has the smaller or equal timestamp.
C22_BothStampedAfterCollection ==
    [][/\ HostnameObtained => AllFulfilled(task)
       /\ TimestampObtained => (AllFulfilled(task) /\ report'.timestamp >= prev)]_vars

\* C22 as amended: the timestamp is read when every scanner has resolved, the
\* hostname is obtained before any scanner is started, and of two scans made
\* one after the other the earlier report has the smaller or equal timestamp.
C22_TimestampAfterCollection ==
    [][/\ HostnameObtained => \A d \in DomainSet : task[d].state = "unborn"
       /\ TimestampObtained =>
             /\ AllFulfilled(task)
             /\ report'.timestamp = now
             /\ report'.timestamp >= prev]_vars

C22_Witness ==
    /\ spc = "returned"
    /\ prev >= 0
    /\ report.timestamp > prev
    /\ now > report.timestamp

(***************************************************************************)
(* Risk aggregator: the structural penalties.                              *)
(***************************************************************************)
SummaryOfSet(rs) ==
    calculateSummary(rs.network, rs.processes, rs.filesystem, rs.dependencies,
                     rs.configuration, rs.containers)

\* Summary a has n more issues of severity sev than summary b, and as many of
\* every other severity.
Adds(a, b, sev, n) ==
    \A x \in Severities :
        Counter(a, x) = Counter(b, x) + (IF x = sev THEN n ELSE 0)

FirewallTypes == {fw.type : fw \in FirewallStatuses}

\* C25: of two result sets that differ only in the firewall status, the one
\* whose firewall is not enabled has one more high issue and the same other
\* counters, whatever the firewall types and the open ports.
C25_DisabledFirewallIsOneHigh ==
    \A tOn, tOff \in FirewallTypes :
        LET on == [rset EXCEPT !.network.firewallStatus = [enabled |-> TRUE, type |-> tOn]]
            off == [rset EXCEPT !.network.firewallStatus = [enabled |-> FALSE, type |-> tOff]]
        IN  Adds(SummaryOfSet(off), SummaryOfSet(on), "high", 1)

C25_Witness ==
    /\ Summarized
    /\ ~rset.network.firewallStatus.enabled
    /\ rset.network.firewallStatus.type = "unknown"
    /\ Len(rset.network.openPorts) = MaxFindings
    /\ summary.highIssues = 1

NoDependencies == DependencyResult(FALSE, 0, 0, 0, 0, 0)

\* C26: the buckets critical, high, moderate and low of the dependency result
\* are added to criticalIssues, highIssues, mediumIssues and lowIssues; the
\* bucket info and the list of vulnerabilities change no counter.
C26_BucketsAddedVerbatim ==
    LET with == SummaryOfSet(rset)
        without == SummaryOfSet([rset EXCEPT !.dependencies = NoDependencies])
        b == rset.dependencies.summary
    IN  /\ with.criticalIssues = without.criticalIssues + b.critical
        /\ with.highIssues = without.highIssues + b.high
        /\ with.mediumIssues = without.mediumIssues + b.moderate
        /\ with.lowIssues = without.lowIssues + b.low
        /\ with.totalIssues = without.totalIssues + b.critical + b.high + b.moderate + b.low

C26_Witness ==
    /\ Summarized
    /\ rset.dependencies.summary.info > 0
    /\ rset.dependencies.summary.moderate > 0
    /\ Len(rset.dependencies.vulnerabilities) = MaxFindings
    /\ summary.mediumIssues = 1
    /\ summary.lowIssues = 0

\* C27: lowIssues grows by the number of entries of filesystem.suidFiles,
\* whatever their severity, and these entries change no other counter.
C27_EverySuidFileIsOneLow ==
    Adds(SummaryOfSet(rset),
         SummaryOfSet([rset EXCEPT !.filesystem.suidFiles = <<>>]),
         "low", Len(rset.filesystem.suidFiles))

C27_Witness ==
    /\ Summarized
    /\ Len(rset.filesystem.suidFiles) >= 2
    /\ Count(rset.filesystem.suidFiles, "critical") = 1
    /\ summary.lowIssues = Len(rset.filesystem.suidFiles)
    /\ summary.criticalIssues = 0

\* C28: highIssues grows by the number of entries of processes.secretsInEnv
\* and these entries change no other counter; with such a secret and no
\* critical issue the riskLevel is HIGH.
C28_EveryEnvSecretIsOneHigh ==
    /\ Adds(SummaryOfSet(rset),
            SummaryOfSet([rset EXCEPT !.processes.secretsInEnv = <<>>]),
            "high", Len(rset.processes.secretsInEnv))
    /\ (Len(rset.processes.secretsInEnv) > 0 /\ SummaryOfSet(rset).criticalIssues = 0)
          => SummaryOfSet(rset).riskLevel = "HIGH"

C28_Witness ==
    /\ Summarized
    /\ Len(rset.processes.secretsInEnv) = 2
    /\ rset.network.firewallStatus.enabled
    /\ summary.highIssues = 2
    /\ summary.riskLevel = "HIGH"

\* C29: the riskLevel is CLEAN exactly when totalIssues is 0, that is when the
\* four counters are 0; six empty results with the firewall enabled give
\* totalIssues 0 and CLEAN.
C29_CleanIffNoIssues ==
    LET sm == SummaryOfSet(rset)
    IN  /\ (sm.riskLevel = "CLEAN") <=> (sm.totalIssues = 0)
        /\ (sm.totalIssues = 0) <=> (\A x \in Severities : Counter(sm, x) = 0)
        /\ (\E fw \in FirewallStatuses : fw.enabled /\ rset = EmptyResultSet(fw))
              => (sm.totalIssues = 0 /\ sm.riskLevel = "CLEAN")

C29_Witness ==
    /\ Summarized
    /\ rset = EmptyResultSet([enabled |-> TRUE, type |-> "ufw"])
    /\ summary.totalIssues = 0
    /\ summary.riskLevel = "CLEAN"

====
